---- MODULE Spec2Model ----
(***************************************************************************)
(* A model of the wake-model calibration scripts                           *)
(*   src/data/calibration_prompt/claude_3.7/code_2.py  (impl "code_2":     *)
(*       WakeModelConfig / WakeModelBuilder / WakeModelOptimizer /         *)
(*       WakeModelAnalyzer)                                                *)
(*   src/data/calibration_prompt/claude_3.7/code_5.py  (impl "code_5":     *)
(*       the monolithic WakeModelOptimizer)                                *)
(* Both scripts are modelled side by side; the variable impl says which    *)
(* one a behaviour runs.                                                   *)
(*                                                                         *)
(* Numbers.  Python floats are replaced by fixed-point values: parameter   *)
(* values are in units of 1e-5 (0.17 is 17000; the two 16-digit defaults   *)
(* are truncated), speeds and deficits in units of 1/Scale.  IEEE NaN and  *)
(* the infinities are kept as values of their own, because the code's      *)
(* degenerate-case handling is about them.                                 *)
(***************************************************************************)
EXTENDS Integers, Sequences, FiniteSets, TLC

VARIABLES
    impl,          \* "code_2" or "code_5": which script this behaviour runs
    pc,            \* where the script is: "start", "configured", "ready", "failed", ...
    MODEL,         \* self.MODEL (0 before construction)
    DOWNWIND,      \* self.DOWNWIND
    X_LB,          \* self.X_LB (rotor diameters)
    X_UB,          \* self.X_UB
    defaults,      \* self.defaults: name -> value
    pbounds,       \* self.pbounds: name -> <<min, max>>
    raised,        \* the exception that ended the last operation, or NoError
    params,        \* the parameter vector of the last build call
    built,         \* the result of the last build call: a spec triple, or NoModel
    precomputes,   \* how many times the observed field has been precomputed
    D,             \* the rotor diameter turbine.diameter(), in metres
    roi            \* the region of interest: roi_x and roi_y as <<start, stop>>

cfgVars == <<impl, MODEL, DOWNWIND, X_LB, X_UB, defaults, pbounds, D, roi>>

-----------------------------------------------------------------------------
(* Bounds of the model *)

\* the model types the constructors are tried with are 0 .. MaxModelType
\* (1 and 2 are the valid ones)
MaxModelType == 3

\* the number of direct builder calls a behaviour records
MaxBuilds == 2

-----------------------------------------------------------------------------
(* Values *)

Impls == {"code_2", "code_5"}
ModelTypes == 0..MaxModelType

EmptyMap == [k \in {} |-> 0]
NoError == [type |-> "none", arg |-> ""]
ValueError(msg) == [type |-> "ValueError", arg |-> msg]
KeyError(k) == [type |-> "KeyError", arg |-> k]
NoModel == [built |-> FALSE]

\* the elements of a sequence
Range(s) == {s[i] : i \in DOMAIN s}

\* d without the key k
Without(d, k) == [x \in DOMAIN d \ {k} |-> d[x]]

-----------------------------------------------------------------------------
(* ConfigSpace: defaults and bounds, in units of 1e-5 *)

\* the defaults literal of (MODEL 1, downwind)
Defaults1Down ==
    [a_s |-> 17000, b_s |-> 500, c_s |-> 20000, b_f |-> -68000, c_f |-> 241000,
     ch1 |-> 73000, ch2 |-> 83250, ch3 |-> -3250, ch4 |-> -32000]

\* the pbounds literal of (MODEL 1, downwind)
Bounds1Down ==
    [a_s |-> <<100, 50000>>, b_s |-> <<100, 1000>>, c_s |-> <<100, 50000>>,
     b_f |-> <<-200000, 100000>>, c_f |-> <<10000, 500000>>,
     ch1 |-> <<-100000, 200000>>, ch2 |-> <<-100000, 200000>>,
     ch3 |-> <<-100000, 200000>>, ch4 |-> <<-100000, 200000>>]

\* the defaults literal of (MODEL 1, upwind)
Defaults1Up ==
    [ss_alpha |-> 88888, ss_beta |-> 141421, rp1 |-> -67200, rp2 |-> 48970,
     ng1 |-> -138100, ng2 |-> 262700, ng3 |-> -152400, ng4 |-> 133600,
     fg1 |-> -6489, fg2 |-> 49110, fg3 |-> 111600, fg4 |-> -15770]

\* the pbounds literal of (MODEL 1, upwind)
Bounds1Up ==
    [ss_alpha |-> <<5000, 300000>>, ss_beta |-> <<5000, 300000>>,
     rp1 |-> <<-200000, 200000>>, rp2 |-> <<-200000, 200000>>,
     ng1 |-> <<-300000, 300000>>, ng2 |-> <<-300000, 300000>>,
     ng3 |-> <<-300000, 300000>>, ng4 |-> <<-300000, 300000>>,
     fg1 |-> <<-200000, 200000>>, fg2 |-> <<-200000, 200000>>,
     fg3 |-> <<-200000, 200000>>, fg4 |-> <<-200000, 200000>>]

\* the defaults literal of the else branch ("MODEL == 2"), either direction
Defaults2 ==
    [A |-> 4000, cti1 |-> 150000, cti2 |-> 80000, ceps |-> 25000, ctlim |-> 99900,
     ch1 |-> 73000, ch2 |-> 83250, ch3 |-> -3250, ch4 |-> -30000]

\* the pbounds literal of the else branch ("MODEL == 2"), either direction
Bounds2 ==
    [A |-> <<100, 50000>>, cti1 |-> <<1000, 500000>>, cti2 |-> <<1000, 500000>>,
     ceps |-> <<1000, 300000>>, ctlim |-> <<1000, 100000>>,
     ch1 |-> <<-100000, 200000>>, ch2 |-> <<-100000, 200000>>,
     ch3 |-> <<-100000, 200000>>, ch4 |-> <<-100000, 200000>>]

\* a pbounds table that lost a key: the mutant of set_default_parameters' bounds
pbounds_dropping_a_key(m, d) ==
    IF m = 1
    THEN IF d THEN Without(Bounds1Down, "ch4") ELSE Without(Bounds1Up, "fg4")
    ELSE Without(Bounds2, "ch4")

\* defaults in which the upwind branch does not look at the family: the mutant
\* of defaults_for
defaults_by_direction_first(m, d) ==
    IF d
    THEN IF m = 1 THEN Defaults1Down ELSE Defaults2
    ELSE Defaults1Up

\* the value _set_default_parameters / _define_optimization_bounds gives
\* self.defaults: "if MODEL == 1: (if DOWNWIND ... else ...) else: # MODEL == 2"
defaults_for(m, d) ==
    IF m = 1
    THEN IF d THEN Defaults1Down ELSE Defaults1Up
    ELSE Defaults2

\* bounds whose ch4 interval starts above the (1, downwind) default of ch4:
\* the mutant of pbounds_for
pbounds_excluding_a_default(m, d) ==
    IF m = 1
    THEN IF d THEN [Bounds1Down EXCEPT !.ch4 = <<-30000, 200000>>] ELSE Bounds1Up
    ELSE Bounds2

\* the value they give self.pbounds, by the same branches
pbounds_for(m, d) ==
    IF m = 1
    THEN IF d THEN Bounds1Down ELSE Bounds1Up
    ELSE Bounds2

\* a region of interest that always takes the downwind limits: the mutant of
\* roi_x_for
roi_x_ignoring_direction(d) == <<2, 10>>

\* the region of interest's x-limits, in rotor diameters
roi_x_for(d) == IF d THEN <<2, 10>> ELSE <<-2, -1>>

\* the rotor diameters the scripts are run with (DTU10MW's 178.3 m, truncated,
\* and a round one)
Diameters == {100, 178}

\* no region of interest selected yet
NoRoi == [x |-> <<0, 0>>, y |-> <<0, 0>>]

\* roi_x = slice(X_LB * D, X_UB * D)
roi_x(xlb, xub, diam) == <<xlb * diam, xub * diam>>

\* roi_y = slice(-2 * D, 2 * D)
roi_y(diam) == <<-2 * diam, 2 * diam>>

\* WakeModelConfig.__init__: "if self.MODEL not in {1, 2}: raise ValueError"
model_type_accepted(m) == m \in {1, 2}

-----------------------------------------------------------------------------
(* ModelBuilder *)

Ok(v) == [ok |-> TRUE, val |-> v, err |-> NoError]
Fail(e) == [ok |-> FALSE, val |-> NoModel, err |-> e]

\* params[k] for each k of keys, in order: the first key that is absent is the
\* one Python's KeyError names; "" when every key is present
RECURSIVE FirstMissing(_, _)
FirstMissing(keys, p) ==
    IF keys = <<>> THEN ""
    ELSE IF Head(keys) \notin DOMAIN p THEN Head(keys)
    ELSE FirstMissing(Tail(keys), p)

\* a sub-model specification: the engine class, the keyword arguments given to
\* it (every value a sequence, a scalar being a sequence of one), and the two
\* optional collaborators
SubModel(kind, args, ground, rotorAvg) ==
    [kind |-> kind, args |-> args, groundModel |-> ground, rotorAvgModel |-> rotorAvg]

BlondelKeys == <<"a_s", "b_s", "c_s", "b_f", "c_f">>
TurboKeys == <<"A", "cti1", "cti2", "ctlim", "ceps">>
BlockageKeys == <<"ss_alpha", "ss_beta", "rp1", "rp2", "ng1", "ng2", "ng3", "ng4">>
TurbulenceKeys == <<"ch1", "ch2", "ch3", "ch4">>

\* BlondelSuperGaussianDeficit2020(**def_args)
BlondelSpec(keys, p) ==
    SubModel("BlondelSuperGaussianDeficit2020",
             [k \in Range(keys) |-> <<p[k]>>], "none", "none")

\* a family-2 deficit built without its two collaborators: the mutant of TurboSpec
TurboSpec_without_collaborators(p) ==
    [kind |-> "TurboGaussianDeficit",
     args |-> [A |-> <<p.A>>, cTI |-> <<p.cti1, p.cti2>>,
               ctlim |-> <<p.ctlim>>, ceps |-> <<p.ceps>>],
     groundModel |-> "none", rotorAvgModel |-> "none"]

\* TurboGaussianDeficit(A=, cTI=[cti1, cti2], ctlim=, ceps=, ct2a=ct2a_mom1d,
\*                      groundModel=Mirror(), rotorAvgModel=GaussianOverlapAvgModel())
TurboSpec(p) ==
    SubModel("TurboGaussianDeficit",
             [A |-> <<p.A>>, cTI |-> <<p.cti1, p.cti2>>,
              ctlim |-> <<p.ctlim>>, ceps |-> <<p.ceps>>],
             "Mirror", "GaussianOverlapAvgModel")

\* SelfSimilarityDeficit2020(**blockage_args), upwind
BlockageSpecUp(m, p) ==
    SubModel("SelfSimilarityDeficit2020",
             [ss_alpha |-> <<p.ss_alpha>>, ss_beta |-> <<p.ss_beta>>,
              r12p |-> <<p.rp1, p.rp2>>,
              ngp |-> <<p.ng1, p.ng2, p.ng3, p.ng4>>],
             IF m = 2 THEN "Mirror" ELSE "none", "none")

\* a coefficient vector with two coefficients swapped: the mutant of
\* TurbulenceSpecDown
TurbulenceSpecDown_swapped(p) ==
    [kind |-> "CrespoHernandez", args |-> [c |-> <<p.ch2, p.ch1, p.ch3, p.ch4>>],
     groundModel |-> "none", rotorAvgModel |-> "none"]

\* CrespoHernandez(c=[ch1, ch2, ch3, ch4])
TurbulenceSpecDown(p) ==
    SubModel("CrespoHernandez", [c |-> <<p.ch1, p.ch2, p.ch3, p.ch4>>], "none", "none")

\* code_2, WakeModelBuilder.build_wake_deficit_model
build_wake_deficit_model(m, d, p) ==
    IF d
    THEN IF m = 1
         THEN LET miss == FirstMissing(BlondelKeys, p)
              IN  IF miss # "" THEN Fail(KeyError(miss)) ELSE Ok(BlondelSpec(BlondelKeys, p))
         ELSE LET miss == FirstMissing(TurboKeys, p)
              IN  IF miss # "" THEN Fail(KeyError(miss)) ELSE Ok(TurboSpec(p))
    ELSE Ok(BlondelSpec(<<>>, p))

\* code_2, WakeModelBuilder.build_blockage_deficit_model
build_blockage_deficit_model(m, d, p) ==
    IF ~d
    THEN LET miss == FirstMissing(BlockageKeys, p)
         IN  IF miss # "" THEN Fail(KeyError(miss)) ELSE Ok(BlockageSpecUp(m, p))
    ELSE Ok(SubModel("SelfSimilarityDeficit2020", EmptyMap, "Mirror", "none"))

\* code_2, WakeModelBuilder.build_turbulence_model
build_turbulence_model(m, d, p) ==
    IF d
    THEN LET miss == FirstMissing(TurbulenceKeys, p)
         IN  IF miss # "" THEN Fail(KeyError(miss)) ELSE Ok(TurbulenceSpecDown(p))
    ELSE Ok(SubModel("CrespoHernandez", EmptyMap, "none", "none"))

\* All2AllIterative(site, turbine, wake_deficitModel=, superpositionModel=LinearSum(),
\*                  deflectionModel=None, turbulenceModel=, blockage_deficitModel=)
WindFarmModel(deficit, blockage, turbulence) ==
    [built |-> TRUE, deficit |-> deficit, blockage |-> blockage,
     turbulence |-> turbulence, superposition |-> "LinearSum", deflection |-> "None"]

\* code_2, WakeModelBuilder.build_wind_farm_model: the three sub-builders in
\* order, the first KeyError ending the call
build_wind_farm_model(m, d, p) ==
    LET wake == build_wake_deficit_model(m, d, p)
        block == build_blockage_deficit_model(m, d, p)
        turb == build_turbulence_model(m, d, p)
    IN  IF ~wake.ok THEN wake
        ELSE IF ~block.ok THEN block
        ELSE IF ~turb.ok THEN turb
        ELSE Ok(WindFarmModel(wake.val, block.val, turb.val))

\* the order in which code_5's create_wind_farm_model reads params
create_wind_farm_model_reads(m, d) ==
    IF d
    THEN IF m = 1 THEN BlondelKeys \o TurbulenceKeys
         ELSE TurbulenceKeys \o TurboKeys
    ELSE BlockageKeys

\* code_5, WakeModelOptimizer.create_wind_farm_model
create_wind_farm_model(m, d, p) ==
    LET miss == FirstMissing(create_wind_farm_model_reads(m, d), p)
    IN  IF miss # "" THEN Fail(KeyError(miss))
        ELSE IF d
        THEN Ok(WindFarmModel(
                 IF m = 1 THEN BlondelSpec(BlondelKeys, p) ELSE TurboSpec(p),
                 SubModel("SelfSimilarityDeficit2020", EmptyMap, "none", "none"),
                 TurbulenceSpecDown(p)))
        ELSE Ok(WindFarmModel(
                 BlondelSpec(<<>>, p),
                 BlockageSpecUp(m, p),
                 SubModel("CrespoHernandez", EmptyMap, "none", "none")))

\* a builder that falls back to nothing when a key is absent and still
\* returns a model: the mutant of build
build_ignoring_missing_keys(i, m, d, p) ==
    Ok([built |-> TRUE, deficit |-> NoModel, blockage |-> NoModel,
        turbulence |-> NoModel, superposition |-> "LinearSum", deflection |-> "None"])

\* the build call of the running script
build(i, m, d, p) ==
    IF i = "code_2" THEN build_wind_farm_model(m, d, p)
    ELSE create_wind_farm_model(m, d, p)

-----------------------------------------------------------------------------
(* Floating-point values: fixed-point numbers, NaN and the two infinities *)

\* one unit of a speed or a deficit is 1/Scale
Scale == 10 * 10

Fin(n) == [k |-> "fin", v |-> n]
NaN == [k |-> "nan", v |-> 0]
PosInf == [k |-> "inf", v |-> 1]
NegInf == [k |-> "inf", v |-> -1]

\* np.isnan
IsNaN(a) == a.k = "nan"
\* np.isfinite
IsFinite(a) == a.k = "fin"

\* -a
FNeg(a) == IF a.k = "nan" THEN NaN ELSE [k |-> a.k, v |-> -a.v]

\* a - b
FSub(a, b) ==
    IF a.k = "nan" \/ b.k = "nan" THEN NaN
    ELSE IF a.k = "fin" /\ b.k = "fin" THEN Fin(a.v - b.v)
    ELSE IF a.k = "inf" /\ b.k = "fin" THEN a
    ELSE IF a.k = "fin" /\ b.k = "inf" THEN FNeg(b)
    ELSE IF a.v = b.v THEN NaN ELSE a

\* a / b for a finite b
FDiv(a, b) ==
    IF a.k = "nan" \/ b.k # "fin" THEN NaN
    ELSE IF b.v = 0
         THEN IF a.k = "fin" /\ a.v = 0 THEN NaN
              ELSE IF a.v > 0 THEN PosInf ELSE NegInf
    ELSE IF a.k = "inf" THEN (IF b.v > 0 THEN a ELSE FNeg(a))
    ELSE Fin((a.v * Scale) \div b.v)

\* a ** 2
FSquare(a) ==
    IF a.k = "nan" THEN NaN
    ELSE IF a.k = "inf" THEN PosInf
    ELSE Fin((a.v * a.v) \div Scale)

\* the integer square root
ISqrt(n) == CHOOSE r \in 0..n : r * r <= n /\ (r + 1) * (r + 1) > n

\* np.sqrt
FSqrt(a) ==
    IF a.k = "nan" THEN NaN
    ELSE IF a.k = "inf" THEN (IF a.v > 0 THEN PosInf ELSE NaN)
    ELSE IF a.v < 0 THEN NaN
    ELSE Fin(ISqrt(a.v * Scale))

\* a <= b as IEEE compares: false when either side is NaN
FLeq(a, b) ==
    /\ a.k # "nan" /\ b.k # "nan"
    /\ \/ a = b
       \/ a.k = "inf" /\ a.v < 0
       \/ b.k = "inf" /\ b.v > 0
       \/ a.k = "fin" /\ b.k = "fin" /\ a.v <= b.v

RECURSIVE SumFin(_)
SumFin(s) == IF s = <<>> THEN 0 ELSE Head(s).v + SumFin(Tail(s))

\* the subsequence of the values of s that are not NaN
NotNaNs(s) == SelectSeq(s, LAMBDA a : a.k # "nan")

\* xarray's DataArray.mean over the values of s: skipna defaults to True for
\* float data, so NaN values are left out, and the mean of nothing is NaN
NanMean(s) ==
    LET kept == NotNaNs(s)
    IN  IF kept = <<>> THEN NaN
        ELSE IF PosInf \in Range(kept)
             THEN (IF NegInf \in Range(kept) THEN NaN ELSE PosInf)
        ELSE IF NegInf \in Range(kept) THEN NegInf
        ELSE Fin(SumFin(kept) \div Len(kept))

-----------------------------------------------------------------------------
(* The condition grid and the fields over it *)

\* the number of wind speeds, of turbulence intensities and of spatial cells
\* of the region of interest the model keeps (the scripts: 7, 8 and the
\* dataset's grid)
NWS == 2
NTI == 3
NCell == 2

\* WSs = np.arange(4, 11), cut to NWS values
ws_values == [i \in 1..NWS |-> 3 + i]
\* TIs = np.arange(0.05, 0.45, 0.05), cut to NTI values, in percent
ti_values == [j \in 1..NTI |-> 5 * j]

\* a grid built turbulence-intensity-major: the mutant of extend_grid
RECURSIVE extend_grid_ti_major(_, _, _)
extend_grid_ti_major(i, ws_acc, ti_acc) ==
    IF i > Len(ti_values) THEN [full_ws |-> ws_acc, full_ti |-> ti_acc]
    ELSE extend_grid_ti_major(i + 1,
                              ws_acc \o ws_values,
                              ti_acc \o [j \in 1..Len(ws_values) |-> ti_values[i]])

\* "for ws in ws_values: full_ti.extend(ti_values); full_ws.extend([ws] * len(ti_values))"
RECURSIVE extend_grid(_, _, _)
extend_grid(i, ws_acc, ti_acc) ==
    IF i > Len(ws_values) THEN [full_ws |-> ws_acc, full_ti |-> ti_acc]
    ELSE extend_grid(i + 1,
                     ws_acc \o [j \in 1..Len(ti_values) |-> ws_values[i]],
                     ti_acc \o ti_values)

full_ws == extend_grid(1, <<>>, <<>>).full_ws
full_ti == extend_grid(1, <<>>, <<>>).full_ti

Conditions == 1..Len(full_ws)
Cells == 1..NCell

\* the arguments of a simulation call:
\* ws=full_ws, TI=full_ti, wd=[270] * len(full_ti)
simulation_inputs(ws, ti) ==
    [ws |-> ws, TI |-> ti, wd |-> [t \in 1..Len(ti) |-> 270]]

NoInputs == [ws |-> <<>>, TI |-> <<>>, wd |-> <<>>]

\* sim_res.WS of condition t, as a fixed-point speed
Freestream(t) == Fin(full_ws[t] * Scale)

\* the observed fields the precompute may produce (deficits interpolated from
\* the reference dataset; interpolation outside the dataset's range gives NaN)
ObsProfiles == {"calm", "deep", "ramp", "gap", "void"}

ObsValue(profile, t, x) ==
    CASE profile = "calm" -> Fin(0)
      [] profile = "deep" -> IF x = 1 THEN Fin(20) ELSE Fin(0)
      [] profile = "ramp" -> Fin(10 * ((t - 1) % 3) + 4 * (x - 1))
      [] profile = "gap"  -> IF x = 1 THEN NaN ELSE Fin(0)
      [] OTHER            -> NaN

\* a field holds one value per condition and cell
ObsField(profile) ==
    [t \in Conditions |-> [x \in Cells |-> ObsValue(profile, t, x)]]

\* the effective-speed fields the engine may return for a model
EngineProfiles == {"free", "wake", "uneven", "surge", "nan_cell", "nan_all", "inf_cell"}

EngineValue(profile, t, x) ==
    CASE profile = "free"     -> Freestream(t)
      [] profile = "wake"     -> IF x = 1 THEN Fin(full_ws[t] * (Scale - 20))
                                 ELSE Freestream(t)
      [] profile = "uneven"   -> IF t = 1 THEN Fin(full_ws[t] * (Scale - 40))
                                 ELSE Freestream(t)
      [] profile = "surge"    -> Fin(2 * full_ws[t] * Scale)
      [] profile = "nan_cell" -> IF t = 1 /\ x = 1 THEN NaN ELSE Freestream(t)
      [] profile = "inf_cell" -> IF t = 1 /\ x = 1 THEN PosInf ELSE Freestream(t)
      [] OTHER                -> NaN

EngineField(profile) ==
    [t \in Conditions |-> [x \in Cells |-> EngineValue(profile, t, x)]]

\* the field f with the value of one cell replaced
WithCell(f, t, x, v) == [f EXCEPT ![t][x] = v]

-----------------------------------------------------------------------------
(* ObjectiveEvaluator *)

\* pred = (sim_res.WS - flow_map.isel(h=0)) / sim_res.WS
predicted_deficit(ws_eff) ==
    [t \in DOMAIN ws_eff |->
        [x \in DOMAIN ws_eff[t] |->
            FDiv(FSub(Freestream(t), ws_eff[t][x]), Freestream(t))]]

\* (self.all_obs - pred) ** 2
squared_error(obs, pred) ==
    [t \in DOMAIN obs |-> [x \in DOMAIN obs[t] |-> FSquare(FSub(obs[t][x], pred[t][x]))]]

\* one root-mean-square over the cells of all conditions together: the mutant
\* of aggregate_rmse
pooled_rmse(obs, pred) ==
    LET sq == squared_error(obs, pred)
        RECURSIVE Flat(_)
        Flat(t) == IF t > Len(sq) THEN <<>> ELSE sq[t] \o Flat(t + 1)
    IN  FSqrt(NanMean(Flat(1)))

\* np.sqrt(((self.all_obs - pred) ** 2).mean(['x', 'y'])).mean('time')
aggregate_rmse(obs, pred) ==
    LET sq == squared_error(obs, pred)
        per_time == [t \in DOMAIN sq |-> FSqrt(NanMean(sq[t]))]
    IN  NanMean(per_time)

\* the sentinel score, -0.5
Sentinel == Fin(-(Scale \div 2))

\* a score that is the RMSE itself: the mutant of score_of
score_without_negation(rmse) ==
    IF IsNaN(rmse) THEN Sentinel ELSE rmse

\* "if np.isnan(rmse): return -0.5" / "return -rmse"
score_of(rmse) ==
    IF IsNaN(rmse) THEN Sentinel ELSE FNeg(rmse)

NoEval == [called |-> FALSE]

\* evaluate_rmse once the engine has returned the effective speeds ws_eff
evaluation(obs, ws_eff) ==
    LET pred == predicted_deficit(ws_eff)
        rmse == aggregate_rmse(obs, pred)
    IN  [called |-> TRUE, pred |-> pred, rmse |-> rmse, score |-> score_of(rmse)]

-----------------------------------------------------------------------------
(* CalibrationOptimizer: the black-box optimizer the scripts drive *)

\* the arguments of optimize / run_optimization are 0 .. MaxInit and 0 .. MaxIter
MaxInit == 1
MaxIter == 1
\* the optimizer samples and suggests among NCand points of the bounded space
NCand == 2
\* how many times the optimization is run
MaxRuns == 2

\* the j-th candidate point of the bounded space pb
Candidate(pb, j) ==
    [k \in DOMAIN pb |-> pb[k][1] + ((pb[k][2] - pb[k][1]) * (j - 1)) \div NCand]

\* a seed taken from the run number: the mutant of random_state
random_state_per_run(r) == r

\* BayesianOptimization(f=self.evaluate_rmse, pbounds=..., random_state=1)
random_state(r) == 1

\* an optimizer run that queues no probe: the mutant of probe_lazy
probe_forgotten(queued, point) == queued

\* optimizer.probe(params=defaults, lazy=True): the point joins the queue and
\* nothing is evaluated
probe_lazy(queued, point) == Append(queued, point)

\* what the engine may do with a model during an optimizer run
EngineOutcomes == {"wake", "surge", "nan_all", "inf_cell", "raise"}
\* the observed fields of an optimizer run
RunObsProfiles == {"deep", "void"}
\* the flow maps the reference simulation of the precompute may give
BaselineProfiles == {"free", "wake"}

EngineError == [type |-> "EngineError", arg |-> "simulation"]

NoBest == [found |-> FALSE]

\* the first index of the largest target (np.argmax)
ArgMax(sp) ==
    CHOOSE i \in DOMAIN sp :
        /\ \A j \in DOMAIN sp : FLeq(sp[j].target, sp[i].target)
        /\ \A j \in 1..(i - 1) : sp[j].target # sp[i].target

\* optimizer.max: the first entry with the largest target
optimizer_max(sp) ==
    IF sp = <<>> THEN NoBest
    ELSE [found |-> TRUE, params |-> sp[ArgMax(sp)].params,
          target |-> sp[ArgMax(sp)].target]

\* an evaluate_rmse that catches the builder's error and returns the sentinel
\* score: the mutant of objective
objective_containing_build_errors(i, m, d, obs, p, o) ==
    LET b == build(i, m, d, p)
    IN  IF ~b.ok
        THEN [crashed |-> FALSE, raised |-> NoError, built |-> NoModel,
              last |-> [called |-> TRUE, pred |-> <<>>, rmse |-> NaN, score |-> Sentinel]]
        ELSE IF o = "raise"
        THEN [crashed |-> TRUE, raised |-> EngineError, built |-> b.val, last |-> NoEval]
        ELSE [crashed |-> FALSE, raised |-> NoError, built |-> b.val,
              last |-> evaluation(obs, EngineField(o))]

\* evaluate_rmse(**p) with the engine answering o: the build may raise a
\* KeyError and the engine may raise; neither is caught, here or by the
\* optimizer, so either ends the script
objective(i, m, d, obs, p, o) ==
    LET b == build(i, m, d, p)
    IN  IF ~b.ok
        THEN [crashed |-> TRUE, raised |-> b.err, built |-> NoModel, last |-> NoEval]
        ELSE IF o = "raise"
        THEN [crashed |-> TRUE, raised |-> EngineError, built |-> b.val, last |-> NoEval]
        ELSE [crashed |-> FALSE, raised |-> NoError, built |-> b.val,
              last |-> evaluation(obs, EngineField(o))]

-----------------------------------------------------------------------------
(* Analyzer: the error breakdown of the best model *)

\* np.abs
FAbs(a) == IF a.k = "nan" THEN NaN ELSE [k |-> a.k, v |-> IF a.v < 0 THEN -a.v ELSE a.v]

\* a + b
FAdd(a, b) == FSub(a, FNeg(b))

\* a * (num / 100), for 0 <= num <= 100: an infinity times zero is NaN
FTimesPercent(a, num) ==
    IF a.k = "nan" THEN NaN
    ELSE IF a.k = "inf" THEN (IF num = 0 THEN NaN ELSE a)
    ELSE Fin((a.v * num) \div 100)

\* a < b
FLess(a, b) == FLeq(a, b) /\ a # b

\* np.mean of a list of numbers: NaN as soon as one of them is NaN
np_mean(s) == IF \E i \in DOMAIN s : IsNaN(s[i]) THEN NaN ELSE NanMean(s)

\* np.percentile(values, q), linear interpolation between the two order
\* statistics around (n - 1) * q / 100; NaN as soon as one value is NaN
np_percentile(values, q) ==
    IF \E i \in DOMAIN values : IsNaN(values[i]) THEN NaN
    ELSE LET sorted == SortSeq(values, FLess)
             n == Len(sorted)
             previous == (q * (n - 1)) \div 100
             gamma == (q * (n - 1)) % 100
             a == sorted[previous + 1]
             b == sorted[IF previous + 2 <= n THEN previous + 2 ELSE n]
             diff_b_a == FSub(b, a)
         IN  IF gamma >= 50
             THEN FSub(b, FTimesPercent(diff_b_a, 100 - gamma))
             ELSE FAdd(a, FTimesPercent(diff_b_a, gamma))

\* diff = observed_deficit.T - pred, per condition and cell
error_field(obs, pred) ==
    [t \in DOMAIN obs |-> [x \in DOMAIN obs[t] |-> FSub(obs[t][x], pred[t][x])]]

\* np.concatenate(all_errors): the cell errors of all conditions, condition by
\* condition
RECURSIVE all_errors_flat(_)
all_errors_flat(diff) ==
    IF diff = <<>> THEN <<>> ELSE Head(diff) \o all_errors_flat(Tail(diff))

\* rmse = np.sqrt(np.mean(diff**2)), for each condition in turn
rmse_values(diff) ==
    [t \in DOMAIN diff |-> FSqrt(NanMean([x \in DOMAIN diff[t] |-> FSquare(diff[t][x])]))]

\* mae = np.mean(np.abs(diff)), for each condition in turn
mae_values(diff) ==
    [t \in DOMAIN diff |-> NanMean([x \in DOMAIN diff[t] |-> FAbs(diff[t][x])])]

\* bias = np.mean(diff), for each condition in turn
bias_values(diff) == [t \in DOMAIN diff |-> NanMean(diff[t])]

\* code_2, WakeModelAnalyzer.analyze_errors: the error_stats it returns for
\* the observed field obs and the simulated effective speeds ws_eff
analyze_errors(obs, ws_eff) ==
    LET diff == error_field(obs, predicted_deficit(ws_eff))
        flat == all_errors_flat(diff)
        abs_errors == [i \in DOMAIN flat |-> FAbs(flat[i])]
    IN  [mean_rmse |-> np_mean(rmse_values(diff)),
         mean_mae |-> np_mean(mae_values(diff)),
         mean_bias |-> np_mean(bias_values(diff)),
         p90_error |-> np_percentile(abs_errors, 90),
         rmse_per_case |-> rmse_values(diff),
         mae_per_case |-> mae_values(diff),
         bias_per_case |-> bias_values(diff)]

\* code_5, WakeModelOptimizer.evaluate_best_model: what it returns (overall
\* RMSE and the per-condition RMSE values) and the "p90 of errors" it prints
evaluate_best_model(obs, ws_eff) ==
    LET diff == error_field(obs, predicted_deficit(ws_eff))
    IN  [overall_rmse |-> np_mean(rmse_values(diff)),
         rmse_values |-> rmse_values(diff),
         p90_of_errors |-> np_percentile(rmse_values(diff), 90)]

\* no analysis made
NoStats == [analysed |-> FALSE]

\* no flow map computed
NoFlowMap == <<>>

\* the error analysis of the running script
error_analysis(i, obs, ws_eff) ==
    IF i = "code_2" THEN analyze_errors(obs, ws_eff) ELSE evaluate_best_model(obs, ws_eff)

-----------------------------------------------------------------------------
(* Analyzer: the running best of the optimization animation *)

\* no frame drawn
NoPlot == [frame |-> -1, best_so_far_params |-> EmptyMap,
           best_so_far_rmse |-> PosInf, best_so_far_rmses |-> <<>>]

\* a comparison that keeps the earlier of two equal points: the mutant of improves
improves_strictly(rmse, best_so_far_rmse) ==
    FLeq(rmse, best_so_far_rmse) /\ rmse # best_so_far_rmse

\* "if -self.optimizer.space.target[i] <= best_so_far_rmse"
improves(rmse, best_so_far_rmse) == FLeq(rmse, best_so_far_rmse)

\* a loop body that records the entry's own RMSE: the mutant of update_plot_step
update_plot_recording_current(acc, entry) ==
    LET rmse == FNeg(entry.target)
    IN  [frame |-> acc.frame + 1,
         best_so_far_params |-> IF improves(rmse, acc.best_so_far_rmse)
                                THEN entry.params ELSE acc.best_so_far_params,
         best_so_far_rmse |-> IF improves(rmse, acc.best_so_far_rmse)
                              THEN rmse ELSE acc.best_so_far_rmse,
         best_so_far_rmses |-> Append(acc.best_so_far_rmses, rmse)]

\* one round of update_plot's loop, for the trace entry of index i
update_plot_step(acc, entry) ==
    LET rmse == FNeg(entry.target)
        better == improves(rmse, acc.best_so_far_rmse)
        now == IF better THEN rmse ELSE acc.best_so_far_rmse
    IN  [frame |-> acc.frame + 1,
         best_so_far_params |-> IF better THEN entry.params ELSE acc.best_so_far_params,
         best_so_far_rmse |-> now,
         best_so_far_rmses |-> Append(acc.best_so_far_rmses, now)]

\* update_plot(frame): the loop "for i in range(frame + 1)" over the trace sp
RECURSIVE update_plot(_, _)
update_plot(sp, frame) ==
    IF frame < 0 THEN NoPlot
    ELSE update_plot_step(update_plot(sp, frame - 1), sp[frame + 1])

-----------------------------------------------------------------------------
(* The Sobol sensitivity script: the per-grid-point analysis loop *)

\* the flow map grid has grid_resolution x grid_resolution points (the
\* script: 100)
grid_resolution == 3
\* problem['num_vars'], the number of uncertain parameters (the script: 4)
num_vars == 2

\* the shapes flow_map.WS_eff.values may have, by the dimensions the flow map
\* keeps: (y, x), (y, x, wd, ws) or (h, y, x, wd, ws), with one height, one
\* wind direction and one wind speed
Layouts == {"yx", "yxwdws", "hyxwdws"}

shape_of(layout) ==
    CASE layout = "yx"     -> <<grid_resolution, grid_resolution>>
      [] layout = "yxwdws" -> <<grid_resolution, grid_resolution, 1, 1>>
      [] OTHER             -> <<1, grid_resolution, grid_resolution, 1, 1>>

\* the number of elements of the axes i, i + 1, ... of an array of the shape
RECURSIVE size_from(_, _)
size_from(shape, i) ==
    IF i > Len(shape) THEN 1 ELSE shape[i] * size_from(shape, i + 1)

\* np.unravel_index(jj, shape): the index along every axis, row-major
unravel_index(jj, shape) ==
    [i \in DOMAIN shape |-> (jj \div size_from(shape, i + 1)) % shape[i]]

\* the flattened grid points, range(Y_flat.shape[1])
GridPoints(shape) == 0..(size_from(shape, 1) - 1)

\* Si['S1'][k] of sobol.analyze(problem, Y_j, ...) for grid point jj: one
\* value per grid point and parameter, never 0
sobol_S1(jj, k) == 10 * (jj + 1) + k

\* np.zeros((len(problem['names']), *original_shape)): per parameter, the
\* values in row-major order
np_zeros(shape) == [k \in 1..num_vars |-> [c \in GridPoints(shape) |-> 0]]

IndexError == [type |-> "IndexError", arg |-> "index out of bounds"]

\* whether numpy accepts "arr[k, index]" where index is a tuple of integers:
\* a tuple inside the index is an integer array indexing the axis after k,
\* whose length is shape[1]
index_in_bounds(shape, index) == \A i \in DOMAIN index : index[i] < shape[1]

\* arr[k, index] = value with index a tuple of integers: every element whose
\* position along the axis after k is one of the integers is assigned
setitem(arr, shape, k, index, value) ==
    [arr EXCEPT ![k] =
        [c \in DOMAIN arr[k] |->
            IF unravel_index(c, shape)[1] \in Range(index) THEN value ELSE arr[k][c]]]

\* "for k, name in enumerate(problem['names']):
\*      S1_indices[k, np.unravel_index(j, original_shape)] = Si['S1'][k]"
RECURSIVE store_S1(_, _, _, _)
store_S1(arr, shape, jj, k) ==
    IF k > num_vars THEN arr
    ELSE store_S1(setitem(arr, shape, k, unravel_index(jj, shape), sobol_S1(jj, k)),
                  shape, jj, k + 1)

-----------------------------------------------------------------------------
(* The scripts' steps *)

VARIABLES
    all_obs,       \* self.all_obs: the observed field ("none" before the precompute)
    init_points,   \* the init_points argument of the optimizer runs
    n_iter,        \* the n_iter argument of the optimizer runs
    queue,         \* the optimizer's queue of points to evaluate
    space,         \* the optimizer's trace: (params, target) pairs in call order
    iteration,     \* maximize's count of surrogate-guided iterations
    evals,         \* the calls of evaluate_rmse in the current run
    run,           \* the number of the current optimizer run
    finished,      \* the traces and best pairs of the completed runs
    rng,           \* per seed, the random stream drawn so far
    guide,         \* the surrogate's suggestions made so far: (seed, trace) -> point
    engine,        \* the engine's answers so far: model -> outcome
    last,          \* the last completed evaluation
    best,          \* the best pair the optimizer reported
    calls,         \* the builder calls made directly on the builder, oldest first
    plot,          \* the running best drawn by the last animation frame
    stats,         \* the error statistics of the last error analysis
    flow_map,      \* the effective speeds of the last flow map taken from a simulation
    sim_inputs,    \* the ws, TI and wd arrays handed to the last simulation call
    baseline,      \* self.flow_map of code_5: the effective speeds of the precompute's flow map
    original_shape, \* Sobol script: the shape of one sample's WS_eff array
    Y_varies,      \* Sobol script: per flattened grid point, whether Y_flat[:, j] varies
    S1_indices,    \* Sobol script: the first-order indices, per parameter and grid point
    sobol_j,       \* Sobol script: the loop variable j of the analysis loop
    sobol_raised   \* Sobol script: the exception that ended the analysis loop

sobolVars == <<original_shape, Y_varies, S1_indices, sobol_j, sobol_raised>>

runVars == <<queue, space, iteration, evals, run, finished, rng, guide, best>>

\* the variables of the calibration scripts
calibVars == <<impl, pc, MODEL, DOWNWIND, X_LB, X_UB, defaults, pbounds, D, roi,
               raised, params, built, precomputes,
               all_obs, init_points, n_iter, queue, space, iteration, evals, run,
               finished, rng, guide, engine, last, best, calls, plot, stats,
               flow_map, sim_inputs, baseline>>

vars == <<impl, pc, MODEL, DOWNWIND, X_LB, X_UB, defaults, pbounds, D, roi,
          raised, params, built, precomputes,
          all_obs, init_points, n_iter, queue, space, iteration, evals, run,
          finished, rng, guide, engine, last, best, calls, plot, stats, flow_map,
          sim_inputs, baseline, sobolVars>>

\* d1 completed by d2
Merge(d1, d2) ==
    [k \in DOMAIN d1 \cup DOMAIN d2 |-> IF k \in DOMAIN d1 THEN d1[k] ELSE d2[k]]

\* a vector holding every parameter name of every configuration
AllDefaults == Merge(Defaults1Down, Merge(Defaults1Up, Defaults2))

\* the parameter vectors build is called with: the configuration's defaults,
\* the full vector, and each of the two with one key removed
BuildInputs(dflt) ==
    {dflt, AllDefaults}
        \cup {Without(dflt, k) : k \in DOMAIN dflt}
        \cup {Without(AllDefaults, k) : k \in DOMAIN AllDefaults}

TypeOK ==
    /\ impl \in Impls
    /\ pc \in {"start", "failed", "configured", "ready", "probed", "maximizing",
               "done", "crashed", "eval", "evaluated", "analysed", "sobol"}
    /\ MODEL \in ModelTypes
    /\ DOWNWIND \in BOOLEAN
    /\ raised.type \in {"none", "ValueError", "KeyError", "EngineError"}
    /\ precomputes \in Nat
    /\ D \in Diameters
    /\ init_points \in 0..MaxInit
    /\ n_iter \in 0..MaxIter
    /\ iteration \in 0..MaxIter
    /\ run \in 1..MaxRuns
    /\ Len(finished) = run - 1
    /\ Len(calls) <= MaxBuilds
    /\ \A i \in DOMAIN space : space[i].target.k \in {"fin", "inf"}

InitIdle ==
    /\ impl \in Impls
    /\ MODEL = 0
    /\ DOWNWIND = TRUE
    /\ X_LB = 0
    /\ X_UB = 0
    /\ defaults = EmptyMap
    /\ pbounds = EmptyMap
    /\ D \in Diameters
    /\ roi = NoRoi
    /\ raised = NoError
    /\ params = EmptyMap
    /\ built = NoModel
    /\ precomputes = 0
    /\ queue = <<>>
    /\ space = <<>>
    /\ iteration = 0
    /\ evals = 0
    /\ run = 1
    /\ finished = <<>>
    /\ rng = [r \in 1..MaxRuns |-> <<>>]
    /\ guide = {}
    /\ engine = <<>>
    /\ last = NoEval
    /\ best = NoBest
    /\ calls = <<>>
    /\ plot = NoPlot
    /\ stats = NoStats
    /\ flow_map = NoFlowMap
    /\ sim_inputs = NoInputs
    /\ baseline = NoFlowMap

\* the Sobol script has not run
SobolIdle ==
    /\ original_shape = <<>>
    /\ Y_varies = <<>>
    /\ S1_indices = <<>>
    /\ sobol_j = 0
    /\ sobol_raised = NoError

\* the scripts before anything is constructed
Init ==
    /\ InitIdle
    /\ SobolIdle
    /\ pc = "start"
    /\ all_obs = "none"
    /\ init_points \in 0..MaxInit
    /\ n_iter \in 0..MaxIter

\* code_2: config = WakeModelConfig(model_type, downwind)
WakeModelConfig_init(m, d) ==
    /\ impl = "code_2"
    /\ pc = "start"
    /\ MODEL' = m
    /\ DOWNWIND' = d
    /\ IF ~model_type_accepted(m)
       THEN /\ raised' = ValueError("MODEL must be either 1 or 2")
            /\ pc' = "failed"
            /\ UNCHANGED <<X_LB, X_UB, defaults, pbounds>>
       ELSE /\ X_LB' = roi_x_for(d)[1]
            /\ X_UB' = roi_x_for(d)[2]
            /\ defaults' = defaults_for(m, d)
            /\ pbounds' = pbounds_for(m, d)
            /\ pc' = "configured"
            /\ UNCHANGED raised
    /\ UNCHANGED <<impl, D, roi, params, built, precomputes, all_obs, init_points,
                   n_iter, runVars, engine, last, calls, plot, stats, flow_map,
                   sim_inputs, baseline, sobolVars>>

\* code_2: main selects the region of interest from the configuration, then
\*         builder = WakeModelBuilder(site, turbine, config);
\*         optimizer = WakeModelOptimizer(builder, ...), whose __init__ builds
\*         the condition grid and ends with prepare_observed_values()
WakeModelOptimizer_init_2(obs) ==
    /\ impl = "code_2"
    /\ pc = "configured"
    /\ roi' = [x |-> roi_x(X_LB, X_UB, D), y |-> roi_y(D)]
    /\ precomputes' = precomputes + 1
    /\ sim_inputs' = simulation_inputs(full_ws, full_ti)
    /\ all_obs' = ObsField(obs)
    /\ pc' = "ready"
    /\ UNCHANGED <<impl, MODEL, DOWNWIND, X_LB, X_UB, defaults, pbounds, D, raised,
                   params, built, init_points, n_iter, runVars, engine, last, calls,
                   plot, stats, flow_map, baseline, sobolVars>>

\* code_5: WakeModelOptimizer(data_path, model_type, downwind): model_type is
\* stored unchecked, then _load_data, _setup_simulation_inputs (which
\* precomputes the observed field and keeps the flow map ref of the reference
\* simulation as self.flow_map) and _define_optimization_bounds run
WakeModelOptimizer_init_5(m, d, obs, ref) ==
    /\ impl = "code_5"
    /\ pc = "start"
    /\ MODEL' = m
    /\ DOWNWIND' = d
    /\ X_LB' = roi_x_for(d)[1]
    /\ X_UB' = roi_x_for(d)[2]
    /\ roi' = [x |-> roi_x(roi_x_for(d)[1], roi_x_for(d)[2], D), y |-> roi_y(D)]
    /\ precomputes' = precomputes + 1
    /\ sim_inputs' = simulation_inputs(full_ws, full_ti)
    /\ baseline' = EngineField(ref)
    /\ all_obs' = ObsField(obs)
    /\ defaults' = defaults_for(m, d)
    /\ pbounds' = pbounds_for(m, d)
    /\ pc' = "ready"
    /\ UNCHANGED <<impl, D, raised, params, built, init_points, n_iter, runVars,
                   engine, last, calls, plot, stats, flow_map, sobolVars>>

\* a builder that keeps the arguments of its earlier calls and falls back to
\* them for the keys p lacks: the mutant of BuildCall
BuildCall_remembering_arguments(p) ==
    /\ pc \in {"configured", "ready"}
    /\ Len(calls) < MaxBuilds
    /\ LET r == build(impl, MODEL, DOWNWIND, Merge(p, params))
       IN  /\ params' = Merge(p, params)
           /\ built' = r.val
           /\ raised' = r.err
           /\ calls' = Append(calls, [params |-> p, built |-> r.val, raised |-> r.err])
    /\ UNCHANGED <<pc, cfgVars, precomputes, all_obs, init_points, n_iter, runVars,
                   engine, last, plot, stats, flow_map, sim_inputs, baseline, sobolVars>>

\* a call of the builder with the vector p: builder.build_wind_farm_model(p)
\* (code_2, as soon as the configuration exists) or
\* self.create_wind_farm_model(p) (code_5)
BuildCall(p) ==
    /\ pc \in {"configured", "ready"}
    /\ Len(calls) < MaxBuilds
    /\ LET r == build(impl, MODEL, DOWNWIND, p)
       IN  /\ params' = p
           /\ built' = r.val
           /\ raised' = r.err
           /\ calls' = Append(calls, [params |-> p, built |-> r.val, raised |-> r.err])
    /\ UNCHANGED <<pc, cfgVars, precomputes, all_obs, init_points, n_iter, runVars,
                   engine, last, plot, stats, flow_map, sim_inputs, baseline, sobolVars>>

\* an optimize that precomputes the observed field again before it starts: the
\* mutant of OptimizerProbe
OptimizerProbe_precomputing_again ==
    /\ pc = "ready"
    /\ precomputes' = precomputes + 1
    /\ queue' = probe_lazy(<<>>, defaults)
    /\ space' = <<>>
    /\ iteration' = 0
    /\ evals' = 0
    /\ best' = NoBest
    /\ pc' = "probed"
    /\ UNCHANGED <<cfgVars, raised, params, built, all_obs,
                   init_points, n_iter, run, finished, rng, guide, engine, last, calls,
                   plot, stats, flow_map, sim_inputs, baseline, sobolVars>>

\* optimize / run_optimization, up to the call of maximize: a fresh
\* BayesianOptimization, then the probe of the defaults
OptimizerProbe ==
    /\ pc = "ready"
    /\ queue' = probe_lazy(<<>>, defaults)
    /\ space' = <<>>
    /\ iteration' = 0
    /\ evals' = 0
    /\ best' = NoBest
    /\ pc' = "probed"
    /\ UNCHANGED <<cfgVars, raised, params, built, precomputes, all_obs,
                   init_points, n_iter, run, finished, rng, guide, engine, last, calls,
                   plot, stats, flow_map, sim_inputs, baseline, sobolVars>>

Max(a, b) == IF a >= b THEN a ELSE b

\* maximize's _prime_queue: init_points random samples join the queue (at
\* least one when both the queue and the trace are empty); the samples are the
\* next draws of the seeded stream
MaximizePrime ==
    /\ pc = "probed"
    /\ LET n == IF queue = <<>> /\ space = <<>> THEN Max(init_points, 1) ELSE init_points
           seed == random_state(run)
       IN  \E ext \in [1..Max(0, n - Len(rng[seed])) -> 1..NCand] :
               LET stream == rng[seed] \o ext
               IN  /\ rng' = [rng EXCEPT ![seed] = stream]
                   /\ queue' = queue \o [i \in 1..n |-> Candidate(pbounds, stream[i])]
    /\ pc' = "maximizing"
    /\ UNCHANGED <<cfgVars, raised, params, built, precomputes, all_obs, init_points,
                   n_iter, space, iteration, evals, run, finished, guide, engine,
                   last, best, calls, plot, stats, flow_map, sim_inputs, baseline,
                   sobolVars>>

\* probe(x, lazy=False): evaluate_rmse(**x) with the engine answering o, and
\* the registration of the result at the end of the trace
ProbeNow(x, o) ==
    LET b == build(impl, MODEL, DOWNWIND, x)
        r == objective(impl, MODEL, DOWNWIND, all_obs, x, o)
    IN  /\ b.ok /\ b.val \in DOMAIN engine => o = engine[b.val]
        /\ ~b.ok => o = "raise"
        /\ engine' = IF b.ok /\ b.val \notin DOMAIN engine
                     THEN engine @@ (b.val :> o) ELSE engine
        /\ params' = x
        /\ built' = r.built
        /\ raised' = r.raised
        /\ evals' = evals + 1
        /\ sim_inputs' = IF b.ok THEN simulation_inputs(full_ws, full_ti) ELSE sim_inputs
        /\ IF r.crashed
           THEN /\ pc' = "crashed"
                /\ UNCHANGED <<space, last, flow_map>>
           ELSE /\ pc' = "maximizing"
                /\ space' = Append(space, [params |-> x, target |-> r.last.score])
                /\ last' = r.last
                /\ flow_map' = EngineField(o)

\* one round of maximize's loop while the queue holds a point
MaximizeQueued ==
    /\ pc = "maximizing"
    /\ queue # <<>>
    /\ queue' = Tail(queue)
    /\ \E o \in EngineOutcomes : ProbeNow(Head(queue), o)
    /\ UNCHANGED <<cfgVars, precomputes, all_obs, init_points, n_iter, iteration,
                   run, finished, rng, guide, best, calls, plot, stats, baseline,
                   sobolVars>>

\* one round of maximize's loop once the queue is empty: the surrogate
\* suggests the next point from the seed and the trace so far
MaximizeSuggested ==
    /\ pc = "maximizing"
    /\ queue = <<>>
    /\ iteration < n_iter
    /\ iteration' = iteration + 1
    /\ LET seed == random_state(run)
           known == {g \in guide : g.seed = seed /\ g.hist = space}
       IN  \E j \in 1..NCand :
               LET x == Candidate(pbounds, j)
               IN  /\ known # {} => \E g \in known : g.point = x
                   /\ guide' = guide \cup {[seed |-> seed, hist |-> space, point |-> x]}
                   /\ \E o \in EngineOutcomes : ProbeNow(x, o)
    /\ UNCHANGED <<cfgVars, precomputes, all_obs, init_points, n_iter, queue,
                   run, finished, rng, best, calls, plot, stats, baseline, sobolVars>>

\* a return that reports the latest entry of the trace as the best pair: the
\* mutant of MaximizeReturn
MaximizeReturn_reporting_last ==
    /\ pc = "maximizing"
    /\ queue = <<>>
    /\ iteration >= n_iter
    /\ best' = [found |-> TRUE, params |-> space[Len(space)].params,
                target |-> space[Len(space)].target]
    /\ pc' = "done"
    /\ UNCHANGED <<cfgVars, raised, params, built, precomputes, all_obs, init_points,
                   n_iter, queue, space, iteration, evals, run, finished, rng,
                   guide, engine, last, calls, plot, stats, flow_map, sim_inputs,
                   baseline, sobolVars>>

\* maximize returns; the best pair is read from optimizer.max
\* (run_optimization, or WakeModelAnalyzer.__init__ in code_2)
MaximizeReturn ==
    /\ pc = "maximizing"
    /\ queue = <<>>
    /\ iteration >= n_iter
    /\ best' = optimizer_max(space)
    /\ pc' = "done"
    /\ UNCHANGED <<cfgVars, raised, params, built, precomputes, all_obs, init_points,
                   n_iter, queue, space, iteration, evals, run, finished, rng,
                   guide, engine, last, calls, plot, stats, flow_map, sim_inputs,
                   baseline, sobolVars>>

\* create_optimization_animation draws the frame of one trace index
AnimationFrame(frame) ==
    /\ pc = "done"
    /\ plot' = update_plot(space, frame)
    /\ UNCHANGED <<pc, cfgVars, raised, params, built, precomputes, all_obs,
                   init_points, n_iter, runVars, engine, last, calls, stats, flow_map,
                   sim_inputs, baseline, sobolVars>>

Animate == \E frame \in 0..(Len(space) - 1) : AnimationFrame(frame)

\* the optimization is run again, with the same arguments, and the figure
\* of the earlier run is closed
NewRun ==
    /\ pc = "done"
    /\ run < MaxRuns
    /\ plot' = NoPlot
    /\ finished' = Append(finished, [space |-> space, best |-> best])
    /\ run' = run + 1
    /\ pc' = "ready"
    /\ UNCHANGED <<cfgVars, raised, params, built, precomputes, all_obs, init_points,
                   n_iter, queue, space, iteration, evals, rng, guide, engine,
                   last, best, calls, stats, flow_map, sim_inputs, baseline, sobolVars>>

\* the error analysis of the best model, the last step of either script:
\* analyzer.analyze_errors(WSs, TIs) (code_2) simulates the model built from
\* the best parameters and analyses that simulation's flow map;
\* evaluate_best_model() (code_5) runs the same simulation but takes the
\* effective speeds from self.flow_map
AnalyzeBestModel ==
    /\ pc = "done"
    /\ LET b == build(impl, MODEL, DOWNWIND, best.params)
           simulated == EngineField(engine[b.val])
           analysed == IF impl = "code_2" THEN simulated ELSE baseline
       IN  /\ params' = best.params
           /\ built' = b.val
           /\ sim_inputs' = simulation_inputs(full_ws, full_ti)
           /\ flow_map' = analysed
           /\ stats' = error_analysis(impl, all_obs, analysed)
    /\ pc' = "analysed"
    /\ UNCHANGED <<cfgVars, raised, precomputes, all_obs, init_points, n_iter,
                   runVars, engine, last, calls, plot, baseline, sobolVars>>

Construct ==
    \E m \in ModelTypes, d \in BOOLEAN :
        \/ WakeModelConfig_init(m, d)
        \/ \E obs \in RunObsProfiles, ref \in BaselineProfiles :
               WakeModelOptimizer_init_5(m, d, obs, ref)

Precompute == \E obs \in RunObsProfiles : WakeModelOptimizer_init_2(obs)

Build == \E p \in BuildInputs(defaults) : BuildCall(p)

NextCfg ==
    \/ Construct
    \/ Precompute
    \/ Build

\* construction and build calls only
SpecCfg == Init /\ [][NextCfg]_vars

Next ==
    \/ Construct
    \/ Precompute
    \/ OptimizerProbe
    \/ MaximizePrime
    \/ MaximizeQueued
    \/ MaximizeSuggested
    \/ MaximizeReturn
    \/ Animate
    \/ AnalyzeBestModel
    \/ NewRun

\* construction, precompute and optimizer runs
Spec == Init /\ [][Next]_vars

-----------------------------------------------------------------------------
(* The objective as a function of the two fields *)

\* the values one cell of an engine field is varied to
CellValues(t) == {Fin((full_ws[t] * Scale) \div 2), NaN, PosInf}

EvalObsFields ==
    {ObsField(o) : o \in ObsProfiles}
        \cup {WithCell(ObsField(o), t, x, NaN) : o \in ObsProfiles, t \in Conditions, x \in Cells}

EvalEngineFields ==
    {EngineField(e) : e \in EngineProfiles}
        \cup UNION {{WithCell(EngineField(e), t, x, v) : v \in CellValues(t)} :
                        e \in EngineProfiles, t \in Conditions, x \in Cells}

InitEval ==
    /\ InitIdle
    /\ SobolIdle
    /\ pc = "eval"
    /\ all_obs \in EvalObsFields
    /\ init_points = 0
    /\ n_iter = 0

\* the part of evaluate_rmse that follows the engine's answer ws_eff
EvaluateField(ws_eff) ==
    /\ pc = "eval"
    /\ sim_inputs' = simulation_inputs(full_ws, full_ti)
    /\ flow_map' = ws_eff
    /\ last' = evaluation(all_obs, ws_eff)
    /\ pc' = "evaluated"
    /\ UNCHANGED <<cfgVars, raised, params, built, precomputes, all_obs,
                   init_points, n_iter, runVars, engine, calls, plot, stats, baseline,
                   sobolVars>>

\* the error analysis, from the simulated field on: the observed deficits and
\* the effective speeds ws_eff are compared condition by condition
AnalyzeErrors(ws_eff) ==
    /\ pc = "eval"
    /\ sim_inputs' = simulation_inputs(full_ws, full_ti)
    /\ flow_map' = ws_eff
    /\ stats' = error_analysis(impl, all_obs, ws_eff)
    /\ pc' = "analysed"
    /\ UNCHANGED <<cfgVars, raised, params, built, precomputes, all_obs,
                   init_points, n_iter, runVars, engine, last, calls, plot, baseline,
                   sobolVars>>

NextEval ==
    \/ \E ws_eff \in EvalEngineFields : EvaluateField(ws_eff)
    \/ \E ws_eff \in EvalEngineFields : AnalyzeErrors(ws_eff)

\* evaluate_rmse applied to every pair of an observed and a simulated field
SpecEval == InitEval /\ [][NextEval]_vars

-----------------------------------------------------------------------------
(* The analysis loop of the Sobol script *)

\* the samples have been simulated and S1_indices is allocated
InitSobol ==
    /\ InitIdle
    /\ impl = "code_2"
    /\ D = 100
    /\ pc = "sobol"
    /\ all_obs = "none"
    /\ init_points = 0
    /\ n_iter = 0
    /\ original_shape \in {shape_of(layout) : layout \in Layouts}
    /\ Y_varies \in [GridPoints(original_shape) -> BOOLEAN]
    /\ S1_indices = np_zeros(original_shape)
    /\ sobol_j = 0
    /\ sobol_raised = NoError

\* the loop is at grid point j
SobolLoopAt ==
    /\ pc = "sobol"
    /\ sobol_raised = NoError
    /\ sobol_j \in GridPoints(original_shape)

\* "if np.all(Y_j == Y_j[0]): continue"
SobolSkip ==
    /\ SobolLoopAt
    /\ ~Y_varies[sobol_j]
    /\ sobol_j' = sobol_j + 1
    /\ UNCHANGED <<calibVars, original_shape, Y_varies, S1_indices, sobol_raised>>

\* one iteration for a grid point whose outputs vary: sobol.analyze, then the
\* store of the first-order index of every parameter
SobolAnalyze ==
    /\ SobolLoopAt
    /\ Y_varies[sobol_j]
    /\ IF index_in_bounds(original_shape, unravel_index(sobol_j, original_shape))
       THEN /\ S1_indices' = store_S1(S1_indices, original_shape, sobol_j, 1)
            /\ sobol_j' = sobol_j + 1
            /\ UNCHANGED sobol_raised
       ELSE /\ sobol_raised' = IndexError
            /\ UNCHANGED <<S1_indices, sobol_j>>
    /\ UNCHANGED <<calibVars, original_shape, Y_varies>>

NextSobol ==
    \/ SobolSkip
    \/ SobolAnalyze

\* the analysis loop of the Sobol script, from its first iteration
SpecSobol == InitSobol /\ [][NextSobol]_vars

-----------------------------------------------------------------------------
(* Claims about the configuration space and the builder *)

\* the script holds a constructed configuration
Constructed == pc \in {"configured", "ready"}

\* the last step was a build call
BuildCalled == Constructed /\ (built # NoModel \/ raised.type = "KeyError")

\* C8: in every constructed configuration with family 1 or 2, of either
\* script, the key set of the defaults map equals the key set of the bounds map
C8_DefaultsKeysEqualBoundsKeys ==
    (Constructed /\ MODEL \in {1, 2}) => DOMAIN defaults = DOMAIN pbounds

\* C8 witness: the (1, upwind) configuration of code_5 is constructed, with its
\* twelve names in both maps
C8_Witness ==
    /\ pc = "ready" /\ impl = "code_5" /\ MODEL = 1 /\ ~DOWNWIND
    /\ Cardinality(DOMAIN defaults) = 12
    /\ DOMAIN defaults = DOMAIN pbounds

\* C9 (as claimed): once a constructor has been called with a family outside
\* {1,2}, the construction has failed with a configuration error and no
\* precompute has run
C9_InvalidFamilyRejected ==
    (pc # "start" /\ MODEL \notin {1, 2}) =>
        (pc = "failed" /\ raised.type = "ValueError" /\ precomputes = 0)

\* the keys the builder reads, per configuration, as the specification's
\* section on the builder lists them
ClaimedReadKeys(m, d) ==
    IF d
    THEN IF m = 1
         THEN {"a_s", "b_s", "c_s", "b_f", "c_f", "ch1", "ch2", "ch3", "ch4"}
         ELSE {"A", "cti1", "cti2", "ceps", "ctlim", "ch1", "ch2", "ch3", "ch4"}
    ELSE {"ss_alpha", "ss_beta", "rp1", "rp2", "ng1", "ng2", "ng3", "ng4"}

-----------------------------------------------------------------------------
(* Claims about the objective *)

\* the error of one cell: observed minus predicted deficit
CellError(t, x) == FSub(all_obs[t][x], last.pred[t][x])

\* the arithmetic mean of all the values of s: NaN as soon as one value is NaN
StrictMean(s) == IF \E i \in DOMAIN s : IsNaN(s[i]) THEN NaN ELSE NanMean(s)

\* the root-mean-square error of condition t over all its cells
ConditionRMS(t) == FSqrt(StrictMean([x \in Cells |-> FSquare(CellError(t, x))]))

\* the mean over all conditions of the per-condition root-mean-square errors
TwoStageRMSE == StrictMean([t \in Conditions |-> ConditionRMS(t)])

\* the root-mean-square error of condition t over its cells whose error is not NaN
ConditionRMSOverValidCells(t) ==
    LET valid == SelectSeq([x \in Cells |-> CellError(t, x)], LAMBDA e : ~IsNaN(e))
    IN  IF valid = <<>> THEN NaN
        ELSE FSqrt(StrictMean([i \in DOMAIN valid |-> FSquare(valid[i])]))

\* the mean, over the conditions that have a cell whose error is not NaN, of
\* the per-condition root-mean-square errors over such cells
TwoStageRMSEOverValidCells ==
    LET rms == SelectSeq([t \in Conditions |-> ConditionRMSOverValidCells(t)],
                         LAMBDA r : ~IsNaN(r))
    IN  IF rms = <<>> THEN NaN ELSE StrictMean(rms)

NoCellErrorIsNaN == \A t \in Conditions, x \in Cells : ~IsNaN(CellError(t, x))

\* C1 (as claimed): whenever the aggregated RMSE of an evaluation is not
\* finite the score is exactly -0.5, and no score is ever non-finite
C1_NonFiniteGivesSentinel ==
    last.called =>
        /\ ~IsFinite(last.rmse) => last.score = Sentinel
        /\ IsFinite(last.score)

\* C3 (as claimed): the RMSE of every evaluation is the mean over all
\* conditions of the per-condition RMS error over all of the condition's cells
C3_TwoStageOverAllCells ==
    last.called => last.rmse = TwoStageRMSE

\* C3 (amended): the RMSE of every evaluation is the mean, over the conditions
\* with at least one non-NaN cell error, of the per-condition RMS error over
\* the cells whose error is not NaN (NaN when there is no such cell); when no
\* cell error is NaN that is the mean over all conditions of the RMS over all
\* cells
C3_TwoStageSkippingNaN ==
    last.called =>
        /\ last.rmse = TwoStageRMSEOverValidCells
        /\ NoCellErrorIsNaN => last.rmse = TwoStageRMSE

\* C3 witness: an evaluation without NaN whose two-stage RMSE is finite and
\* differs from the RMS pooled over all cells of all conditions
C3_Witness ==
    /\ last.called
    /\ NoCellErrorIsNaN
    /\ IsFinite(last.rmse)
    /\ last.rmse = TwoStageRMSE
    /\ IsFinite(pooled_rmse(all_obs, last.pred))
    /\ last.rmse # pooled_rmse(all_obs, last.pred)

\* C4 (as claimed): for any evaluation the RMSE is >= 0 and the score is the
\* negative of the RMSE
C4_ScoreIsNegatedRMSE ==
    last.called =>
        /\ FLeq(Fin(0), last.rmse)
        /\ last.score = FNeg(last.rmse)

\* C4 (amended): for any evaluation whose RMSE is finite, the RMSE is >= 0 and
\* the score is its negative; when the RMSE is NaN the score is -0.5; every
\* score is <= 0
C4_ScoreIsNegatedFiniteRMSE ==
    last.called =>
        /\ IsFinite(last.rmse) =>
               (FLeq(Fin(0), last.rmse) /\ last.score = FNeg(last.rmse))
        /\ IsNaN(last.rmse) => last.score = Sentinel
        /\ FLeq(last.score, Fin(0))

\* C4 witness: an evaluation with a finite positive RMSE, scored with its negative
C4_Witness ==
    /\ last.called
    /\ IsFinite(last.rmse)
    /\ last.rmse.v > 0
    /\ last.score = Fin(-last.rmse.v)

-----------------------------------------------------------------------------
(* Claims about the optimizer runs *)

\* C2 (as claimed): an engine error during an evaluation does not end the
\* run: the evaluation is scored with the sentinel and joins the trace
C2_EngineFailureContained ==
    raised = EngineError =>
        /\ pc # "crashed"
        /\ space # <<>>
        /\ space[Len(space)].target = Sentinel

\* C5: queuing the probe evaluates nothing; the first evaluation is at the
\* defaults; the next init_points evaluations are the random samples, in the
\* order drawn, and only then the surrogate-guided iterations begin; a run that
\* returns has a trace of 1 + init_points + n_iter entries, one per evaluation
C5_RunOrder ==
    /\ pc = "probed" => (evals = 0 /\ space = <<>> /\ queue = <<defaults>>)
    /\ (pc \in {"maximizing", "done", "crashed"} /\ evals >= 1) =>
           IF evals = 1 THEN params = defaults
           ELSE space[1].params = defaults
    /\ pc \in {"maximizing", "done"} =>
           /\ Len(space) = evals
           /\ Len(queue) = Max(0, 1 + init_points - evals)
           /\ iteration = Max(0, evals - 1 - init_points)
           /\ \A i \in DOMAIN space :
                  (2 <= i /\ i <= 1 + init_points) =>
                      space[i].params = Candidate(pbounds, rng[random_state(run)][i - 1])
    /\ pc = "done" => Len(space) = 1 + init_points + n_iter

\* C5 witness: a run with one random exploration and one guided iteration has
\* returned, with the probe first and another point second
C5_Witness ==
    /\ pc = "done"
    /\ init_points = 1 /\ n_iter = 1
    /\ Len(space) = 3
    /\ space[1].params = defaults
    /\ space[2].params # defaults

\* the score of the defaults, evaluated afresh with the engine's answer for
\* the model built from them
EvaluateDefaults ==
    LET b == build(impl, MODEL, DOWNWIND, defaults)
    IN  objective(impl, MODEL, DOWNWIND, all_obs, defaults, engine[b.val]).last.score

\* C6: a run with init_points = 0 and n_iter = 0 that returns has a trace of
\* exactly one entry, the defaults with the score evaluate(defaults), and
\* reports that entry as the best pair
C6_ProbeOnlyRun ==
    (pc = "done" /\ init_points = 0 /\ n_iter = 0) =>
        /\ Len(space) = 1
        /\ space[1].params = defaults
        /\ space[1].target = EvaluateDefaults
        /\ best = [found |-> TRUE, params |-> defaults, target |-> EvaluateDefaults]

\* C6 witness: the (2, downwind) configuration's probe-only run has returned
\* with a finite score
C6_Witness ==
    /\ pc = "done" /\ init_points = 0 /\ n_iter = 0
    /\ MODEL = 2 /\ DOWNWIND
    /\ Len(space) = 1
    /\ space[1].params = Defaults2
    /\ IsFinite(space[1].target)

\* s is a prefix of t
IsPrefix(s, t) == Len(s) <= Len(t) /\ s = SubSeq(t, 1, Len(s))

\* C7: a later run with the same seed, bounds, objective and probe retraces
\* every earlier run entry by entry, and a run that returns has the same trace
\* and the same best pair as every earlier run
C7_RunsReproduce ==
    \A i \in DOMAIN finished :
        /\ pc \in {"maximizing", "done"} => IsPrefix(space, finished[i].space)
        /\ pc = "done" => (space = finished[i].space /\ best = finished[i].best)

\* C7 witness: a second run of three evaluations has returned with the trace
\* and best pair of the first
C7_Witness ==
    /\ pc = "done"
    /\ run = 2
    /\ Len(space) = 3
    /\ space[2].params # space[1].params
    /\ finished[1].space = space
    /\ finished[1].best = best

-----------------------------------------------------------------------------
(* Claims about the builder's specifications *)

\* the recorded builder calls that were made with the configuration's defaults
DefaultsCalls == {i \in DOMAIN calls : calls[i].params = defaults}

\* C11 (as claimed): in each of the four configurations, two builder calls on
\* the configuration's defaults both yield a model, and the two models are
\* structurally equal: the same deficit, blockage and turbulence sub-model
\* kinds with the same parameter values
C11_BuildTwiceEqualTriples ==
    (Constructed /\ MODEL \in {1, 2}) =>
        \A i, j \in DefaultsCalls :
            /\ calls[i].built # NoModel
            /\ calls[j].built # NoModel
            /\ calls[i].built.deficit = calls[j].built.deficit
            /\ calls[i].built.blockage = calls[j].built.blockage
            /\ calls[i].built.turbulence = calls[j].built.turbulence

-----------------------------------------------------------------------------
(* Claims about the region of interest and the parameter names *)

\* the script has selected its region of interest
RoiSelected == pc \in {"ready", "probed", "maximizing", "done", "crashed"}

\* C12: the region of interest is derived from the direction only: downwind
\* gives x-bounds (2D, 10D), upwind (-2D, -1D), and the y-bounds are (-2D, 2D)
\* in both cases, for every rotor diameter D and whatever the family; for
\* D = 100 that is x = (-200, -100) upwind, x = (200, 1000) downwind and
\* y = (-200, 200)
C12_RoiFromDirection ==
    RoiSelected =>
        /\ roi.x = IF DOWNWIND THEN <<2 * D, 10 * D>> ELSE <<-2 * D, -D>>
        /\ roi.y = <<-2 * D, 2 * D>>
        /\ D = 100 =>
               /\ roi.x = IF DOWNWIND THEN <<200, 1000>> ELSE <<-200, -100>>
               /\ roi.y = <<-200, 200>>

\* C12 witness: code_2 has selected the upwind region for D = 100
C12_Witness ==
    /\ pc = "ready" /\ impl = "code_2"
    /\ ~DOWNWIND /\ D = 100
    /\ roi = [x |-> <<-200, -100>>, y |-> <<-200, 200>>]

\* the parameter names the specification documents for each configuration
DocumentedNames(m, d) ==
    IF m = 1
    THEN IF d
         THEN {"a_s", "b_s", "c_s", "b_f", "c_f", "ch1", "ch2", "ch3", "ch4"}
         ELSE {"ss_alpha", "ss_beta", "rp1", "rp2", "ng1", "ng2", "ng3", "ng4",
               "fg1", "fg2", "fg3", "fg4"}
    ELSE {"A", "cti1", "cti2", "ceps", "ctlim", "ch1", "ch2", "ch3", "ch4"}

\* C13: each configuration has exactly the documented parameter names, as the
\* keys of its defaults and of its bounds: 9 names for (1, downwind), 12 for
\* (1, upwind), and the same 9 for (2, downwind) and (2, upwind)
C13_DocumentedParameterNames ==
    (Constructed /\ MODEL \in {1, 2}) =>
        /\ DOMAIN defaults = DocumentedNames(MODEL, DOWNWIND)
        /\ DOMAIN pbounds = DocumentedNames(MODEL, DOWNWIND)
        /\ Cardinality(DOMAIN defaults) = IF MODEL = 1 /\ ~DOWNWIND THEN 12 ELSE 9

\* C13 witness: the (2, upwind) configuration of code_2 is constructed with the
\* nine names of family 2
C13_Witness ==
    /\ pc = "configured" /\ impl = "code_2"
    /\ MODEL = 2 /\ ~DOWNWIND
    /\ Cardinality(DOMAIN defaults) = 9
    /\ {"A", "cti1", "ch4"} \subseteq DOMAIN defaults
    /\ "ss_alpha" \notin DOMAIN defaults

-----------------------------------------------------------------------------
(* Claims about the analyzer's running best *)

\* the RMSE the analyzer reads off trace entry i: the negated score
EntryRMSE(i) == FNeg(space[i].target)

\* the entries with the lowest RMSE among the first k
LowestAmong(k) ==
    {i \in 1..k : \A j \in 1..k : FLeq(EntryRMSE(i), EntryRMSE(j))}

\* the largest element of a non-empty set of indices
Latest(S) == CHOOSE i \in S : \A j \in S : j <= i

\* a frame of the animation has been drawn
FrameDrawn == pc = "done" /\ plot.frame >= 0

\* C14: for every trace and every prefix length k >= 1, the running best is
\* the pair among the first k trace entries with the lowest RMSE (the negated
\* score), and of several entries with the minimal RMSE the one with the
\* largest index is reported
C14_RunningBestIsLatestLowest ==
    FrameDrawn =>
        LET k == plot.frame + 1
        IN  /\ LowestAmong(k) # {}
            /\ plot.best_so_far_rmse = EntryRMSE(Latest(LowestAmong(k)))
            /\ plot.best_so_far_params = space[Latest(LowestAmong(k))].params

\* C14 witness: the last frame of a trace of three entries of which the first
\* and the third tie for the lowest RMSE at different points, the third reported
C14_Witness ==
    /\ FrameDrawn
    /\ plot.frame = 2
    /\ LowestAmong(3) = {1, 3}
    /\ space[1].params # space[3].params
    /\ plot.best_so_far_params = space[3].params

\* C15: the running-best RMSE series has one value per prefix index and never
\* increases: the value at index i+1 is not greater than the value at index i
C15_RunningBestNonIncreasing ==
    FrameDrawn =>
        /\ Len(plot.best_so_far_rmses) = plot.frame + 1
        /\ \A i \in 1..plot.frame :
               FLeq(plot.best_so_far_rmses[i + 1], plot.best_so_far_rmses[i])
        /\ plot.best_so_far_rmses[plot.frame + 1] = plot.best_so_far_rmse

\* C15 witness: a series of three values over a trace whose second entry is
\* worse than its first and whose third is better than both
C15_Witness ==
    /\ FrameDrawn
    /\ plot.frame = 2
    /\ ~FLeq(EntryRMSE(2), EntryRMSE(1))
    /\ ~FLeq(EntryRMSE(1), EntryRMSE(3))
    /\ plot.best_so_far_rmses = <<EntryRMSE(1), EntryRMSE(1), EntryRMSE(3)>>

-----------------------------------------------------------------------------
(* Claims about the error breakdown *)

\* an error analysis has been made
Analysed == pc = "analysed"

\* the breakdown reports a quantity under one of the names
Reports(names) == \E n \in names : n \in DOMAIN stats

\* the value reported under one of the names
Reported(names) == stats[CHOOSE n \in names : n \in DOMAIN stats]

\* the cell errors of the analysed pair of fields
AnalysedErrors == error_field(all_obs, predicted_deficit(flow_map))

\* the 90th percentile of the absolute errors of all cells of all conditions
PooledP90 ==
    LET flat == all_errors_flat(AnalysedErrors)
    IN  np_percentile([i \in DOMAIN flat |-> FAbs(flat[i])], 90)

\* C16 (as claimed): the error breakdown of either script reports RMSE, mean
\* absolute error and bias once per condition, in condition-grid order, plus
\* one 90th percentile taken over the absolute errors of all cells of all
\* conditions together (not a percentile of the per-condition RMSE values)
C16_ErrorBreakdown ==
    Analysed =>
        /\ Reports({"rmse_per_case", "rmse_values"})
        /\ Reported({"rmse_per_case", "rmse_values"}) = rmse_values(AnalysedErrors)
        /\ Reports({"mae_per_case"})
        /\ Reported({"mae_per_case"}) = mae_values(AnalysedErrors)
        /\ Reports({"bias_per_case"})
        /\ Reported({"bias_per_case"}) = bias_values(AnalysedErrors)
        /\ Reports({"p90_error", "p90_of_errors"})
        /\ Reported({"p90_error", "p90_of_errors"}) = PooledP90

-----------------------------------------------------------------------------
(* Claims about the sub-model selection of the builder *)

\* the last step was a builder call that returned a model, in a configuration
\* of family 1 or 2
Built == BuildCalled /\ built # NoModel /\ MODEL \in {1, 2}

\* C17 (as claimed): in both builders the blockage specification is selected
\* by (family, direction): upwind it is parametrized by ss_alpha, ss_beta,
\* r12p = [rp1, rp2] and ngp = [ng1..ng4] from params, with ground mirroring
\* exactly when the family is 2; downwind it has ground mirroring and no
\* parameter overrides
C17_BlockageSelection ==
    Built =>
        /\ built.blockage.kind = "SelfSimilarityDeficit2020"
        /\ built.blockage.rotorAvgModel = "none"
        /\ IF DOWNWIND
           THEN /\ built.blockage.args = EmptyMap
                /\ built.blockage.groundModel = "Mirror"
           ELSE /\ built.blockage.args =
                       [ss_alpha |-> <<params.ss_alpha>>, ss_beta |-> <<params.ss_beta>>,
                        r12p |-> <<params.rp1, params.rp2>>,
                        ngp |-> <<params.ng1, params.ng2, params.ng3, params.ng4>>]
                /\ built.blockage.groundModel = IF MODEL = 2 THEN "Mirror" ELSE "none"

\* C18: the deficit specification is selected by (family, direction):
\* (1, downwind) gives variant A with exactly a_s, b_s, c_s, b_f, c_f from
\* params; (2, downwind) gives variant B with A, cti1, cti2, ceps, ctlim from
\* params plus ground mirroring and rotor-area averaging; upwind gives variant
\* A without overrides, whatever the family and the params
C18_DeficitSelection ==
    Built =>
        IF ~DOWNWIND
        THEN built.deficit =
                 [kind |-> "BlondelSuperGaussianDeficit2020", args |-> EmptyMap,
                  groundModel |-> "none", rotorAvgModel |-> "none"]
        ELSE IF MODEL = 1
        THEN built.deficit =
                 [kind |-> "BlondelSuperGaussianDeficit2020",
                  args |-> [a_s |-> <<params.a_s>>, b_s |-> <<params.b_s>>,
                            c_s |-> <<params.c_s>>, b_f |-> <<params.b_f>>,
                            c_f |-> <<params.c_f>>],
                  groundModel |-> "none", rotorAvgModel |-> "none"]
        ELSE built.deficit =
                 [kind |-> "TurboGaussianDeficit",
                  args |-> [A |-> <<params.A>>, cTI |-> <<params.cti1, params.cti2>>,
                            ceps |-> <<params.ceps>>, ctlim |-> <<params.ctlim>>],
                  groundModel |-> "Mirror", rotorAvgModel |-> "GaussianOverlapAvgModel"]

\* C18 witness: code_5 has built the (2, downwind) model from its defaults
\* with one unread key removed, variant B carrying the family-2 values
C18_Witness ==
    /\ Built /\ impl = "code_5"
    /\ MODEL = 2 /\ DOWNWIND
    /\ params = Without(AllDefaults, "fg1")
    /\ built.deficit.kind = "TurboGaussianDeficit"
    /\ built.deficit.args.cTI = <<150000, 80000>>
    /\ built.deficit.groundModel = "Mirror"

\* C19: the turbulence specification is selected by the direction only:
\* downwind it carries the coefficient vector [ch1, ch2, ch3, ch4] from params,
\* in that order; upwind it is the engine default, whatever the family
C19_TurbulenceSelection ==
    Built =>
        /\ built.turbulence.kind = "CrespoHernandez"
        /\ built.turbulence.groundModel = "none"
        /\ built.turbulence.rotorAvgModel = "none"
        /\ built.turbulence.args =
               IF DOWNWIND
               THEN [c |-> <<params.ch1, params.ch2, params.ch3, params.ch4>>]
               ELSE EmptyMap

\* C19 witness: code_2 has built the (1, downwind) model from its defaults,
\* the turbulence model carrying their four coefficients in order
C19_Witness ==
    /\ Built /\ impl = "code_2"
    /\ MODEL = 1 /\ DOWNWIND
    /\ params = defaults
    /\ built.turbulence.args.c = <<73000, 83250, -3250, -32000>>

-----------------------------------------------------------------------------
(* Claims about the builder's frame *)

\* what a builder call on the vector p gives when it is the only call made on
\* a freshly constructed configuration
InIsolation(p) ==
    LET r == build(impl, MODEL, DOWNWIND, p)
    IN  [params |-> p, built |-> r.val, raised |-> r.err]

\* C20: a builder call leaves the configuration's defaults map, its bounds map
\* and the caller's params mapping unchanged, and what it returns depends only
\* on the configuration and the params: in any sequence of calls with
\* different vectors each call gives what it gives in isolation, and two calls
\* with the same vector give the same result whatever was built in between
C20_BuildReferentiallyTransparent ==
    (Constructed /\ calls # <<>>) =>
        /\ defaults = defaults_for(MODEL, DOWNWIND)
        /\ pbounds = pbounds_for(MODEL, DOWNWIND)
        /\ params = calls[Len(calls)].params
        /\ \A i \in DOMAIN calls : calls[i] = InIsolation(calls[i].params)
        /\ \A i, j \in DOMAIN calls :
               calls[i].params = calls[j].params =>
                   (calls[i].built = calls[j].built /\ calls[i].raised = calls[j].raised)

\* C20 witness: a call on the full vector that returned a model, followed by a
\* call on the defaults without one read key, which failed on that key as it
\* does in isolation
C20_Witness ==
    /\ Constructed
    /\ MODEL = 1 /\ DOWNWIND
    /\ Len(calls) = 2
    /\ calls[1].params = AllDefaults
    /\ calls[1].built # NoModel
    /\ calls[2].params = Without(defaults, "b_f")
    /\ calls[2].raised = KeyError("b_f")
    /\ calls[2].built = NoModel
    /\ params = Without(defaults, "b_f")
    /\ defaults = Defaults1Down

-----------------------------------------------------------------------------
(* Claims about the observed field and the condition grid *)

\* the script holds an optimizer on which runs are made
OptimizerReady == pc \in {"ready", "probed", "maximizing", "done", "crashed", "analysed"}

\* C21: the observed field is computed exactly once, before the first
\* objective evaluation of any optimizer run, and from then on no evaluation,
\* optimizer step or analysis step modifies it: it is the same before and
\* after every step, every evaluate_rmse call included
C21_ObservedFieldComputedOnce ==
    /\ [](OptimizerReady => precomputes = 1)
    /\ [](evals >= 1 => precomputes = 1)
    /\ [][OptimizerReady => (all_obs' = all_obs /\ precomputes' = precomputes)]_vars

\* C21 witness: the second optimizer run has evaluated three points on the
\* field precomputed once
C21_Witness ==
    /\ pc = "done" /\ run = 2
    /\ evals = 3
    /\ precomputes = 1
    /\ all_obs = ObsField("deep")

\* a simulation has been called
SimulationRan == sim_inputs # NoInputs

\* C22: whenever a simulation has been called (by the precompute, by an
\* evaluation or by the error analysis), its conditions are the full cross
\* product of the wind speeds and the turbulence intensities: |WS| * |TI|
\* entries, each (ws, ti) pair exactly once, entry k (from 0) being
\* (WS[k div |TI|], TI[k mod |TI|]), all with the wind direction 270
C22_ConditionGrid ==
    SimulationRan =>
        LET ws == sim_inputs.ws
            ti == sim_inputs.TI
            wd == sim_inputs.wd
            n  == Len(ws_values) * Len(ti_values)
        IN  /\ Len(ws) = n /\ Len(ti) = n /\ Len(wd) = n
            /\ \A i \in DOMAIN ws_values, j \in DOMAIN ti_values :
                   Cardinality({k \in 1..n : ws[k] = ws_values[i] /\ ti[k] = ti_values[j]}) = 1
            /\ \A k \in 0..(n - 1) :
                   /\ ws[k + 1] = ws_values[(k \div Len(ti_values)) + 1]
                   /\ ti[k + 1] = ti_values[(k % Len(ti_values)) + 1]
                   /\ wd[k + 1] = 270

\* C22 witness: code_2 has precomputed, evaluated at least twice and analysed
\* the best model, and the last simulation ran on the conditions (4, 5),
\* (4, 10), (4, 15), (5, 5), (5, 10), (5, 15)
C22_Witness ==
    /\ pc = "analysed" /\ impl = "code_2"
    /\ evals >= 2
    /\ precomputes = 1
    /\ sim_inputs.ws = <<4, 4, 4, 5, 5, 5>>
    /\ sim_inputs.TI = <<5, 10, 15, 5, 10, 15>>
    /\ sim_inputs.wd = <<270, 270, 270, 270, 270, 270>>

-----------------------------------------------------------------------------
(* Claims about the trace and the errors of a run *)

\* the pair b is an entry of the trace sp whose score no entry exceeds
BestOfTrace(b, sp) ==
    /\ b.found
    /\ \E i \in DOMAIN sp : sp[i].params = b.params /\ sp[i].target = b.target
    /\ \A i \in DOMAIN sp : FLeq(sp[i].target, b.target)

\* maximize has returned
Returned == pc \in {"done", "analysed"}

\* C23: during a run the trace only grows at its end: a step either leaves it
\* alone or appends one entry, and it appends exactly when an objective
\* evaluation completes, the entry being that evaluation's (params, score)
\* (a new run starts a new trace); whenever the trace is not empty the
\* optimizer's best pair is an entry of it with a score >= every entry's,
\* and so is the best pair reported when maximize has returned
C23_TraceAppendOnly ==
    /\ [][pc # "ready" =>
            \/ space' = space /\ (evals' = evals \/ pc' = "crashed")
            \/ /\ evals' = evals + 1
               /\ space' = Append(space, [params |-> params', target |-> last'.score])]_vars
    /\ [](space # <<>> => BestOfTrace(optimizer_max(space), space))
    /\ [](Returned => BestOfTrace(best, space))

\* C23 witness: a trace of three entries whose second entry has the largest
\* score, reported as the best pair
C23_Witness ==
    /\ pc = "done"
    /\ Len(space) = 3 /\ evals = 3
    /\ best.target = space[2].target /\ best.params = space[2].params
    /\ FLess(space[1].target, space[2].target)
    /\ FLess(space[3].target, space[2].target)

\* the candidate p lacks a key the builder reads
BuildFails(p) == ~build(impl, MODEL, DOWNWIND, p).ok

\* C24: when the build for the candidate of an evaluation fails on a missing
\* key, the evaluation ends the run with that KeyError: no score (in
\* particular no sentinel) is returned, nothing joins the trace, and from then
\* on no evaluation is performed
C24_BuildErrorsSurface ==
    /\ [][(evals' = evals + 1 /\ BuildFails(params')) =>
            /\ pc' = "crashed"
            /\ raised' = build(impl, MODEL, DOWNWIND, params').err
            /\ raised'.type = "KeyError"
            /\ built' = NoModel
            /\ last' = last
            /\ space' = space]_vars
    /\ [][pc = "crashed" => (pc' = "crashed" /\ evals' = evals /\ space' = space)]_vars
    /\ [](pc = "crashed" => (raised.type \in {"KeyError", "EngineError"} /\ best = NoBest))

\* C24 witness: the probe of the (2, upwind) defaults, which lack the blockage
\* keys, has ended the run with KeyError('ss_alpha') on the first evaluation
C24_Witness ==
    /\ pc = "crashed"
    /\ MODEL = 2 /\ ~DOWNWIND
    /\ params = defaults
    /\ raised = KeyError("ss_alpha")
    /\ evals = 1
    /\ space = <<>>
    /\ last = NoEval

\* C25 (as claimed): in each of the four (family, direction) configurations
\* the defaults map holds every key the builder reads, so the build from the
\* defaults yields a model and no optimizer run ends with a KeyError
C25_DefaultsCoverReadKeys ==
    (pc \notin {"start", "failed"} /\ MODEL \in {1, 2}) =>
        /\ ~BuildFails(defaults)
        /\ raised.type # "KeyError"

\* the RMSE that evaluate_rmse computed for trace entry i, before it was
\* turned into a score
ComputedRMSE(i) ==
    objective(impl, MODEL, DOWNWIND, all_obs, space[i].params,
              engine[build(impl, MODEL, DOWNWIND, space[i].params).val]).last.rmse

\* the trace entries with the parameter vector p and the score s
EntriesOf(p, s) == {i \in DOMAIN space : space[i].params = p /\ space[i].target = s}

\* C26 (as claimed): when the trace holds an entry whose RMSE was finite, the
\* best pair the optimizer reports, and the running best of the last
\* animation frame, is an entry with a finite RMSE and not one scored with
\* the -0.5 sentinel
C26_SentinelNeverBest ==
    (Returned /\ \E i \in DOMAIN space : IsFinite(ComputedRMSE(i))) =>
        /\ \E i \in EntriesOf(best.params, best.target) : IsFinite(ComputedRMSE(i))
        /\ plot.frame = Len(space) - 1 =>
               \E i \in DOMAIN space :
                   /\ space[i].params = plot.best_so_far_params
                   /\ IsFinite(ComputedRMSE(i))

-----------------------------------------------------------------------------
(* Claims about the analysis of the best model *)

\* the best model of a finished run has been analysed
BestAnalysed == pc = "analysed" /\ best.found

\* the effective speeds the engine gives for the model built from the best
\* parameters
BestSimulation ==
    EngineField(engine[build(impl, MODEL, DOWNWIND, best.params).val])

\* C27 (as claimed): the per-condition breakdown of the best model is computed
\* from the predicted deficit (freestream - effective speed) / freestream of
\* the simulation made with the best parameters, in either script
C27_BreakdownOfBestSimulation ==
    BestAnalysed =>
        Reported({"rmse_per_case", "rmse_values"}) =
            rmse_values(error_field(all_obs, predicted_deficit(BestSimulation)))

\* the animation has drawn the frame of the last trace entry
LastFrameDrawn == pc = "done" /\ plot.frame = Len(space) - 1

-----------------------------------------------------------------------------
(* Claims about the bounds of the search space *)

\* the point p lies in the bounded search space
InsideBounds(p) ==
    \A k \in DOMAIN p :
        k \in DOMAIN pbounds /\ pbounds[k][1] <= p[k] /\ p[k] <= pbounds[k][2]

\* C29: in each of the four configurations every parameter's bounds have
\* min < max and hold the parameter's default, and the probe point the
\* optimizer queues lies inside the bounded search space
C29_DefaultsInsideBounds ==
    (pc \notin {"start", "failed"} /\ MODEL \in {1, 2}) =>
        /\ \A k \in DOMAIN pbounds :
               /\ pbounds[k][1] < pbounds[k][2]
               /\ k \in DOMAIN defaults
               /\ pbounds[k][1] <= defaults[k] /\ defaults[k] <= pbounds[k][2]
        /\ pc = "probed" => (Len(queue) = 1 /\ InsideBounds(queue[1]))

\* C29 witness: the probe of the (2, downwind) defaults is queued; ctlim's
\* default 0.999 lies just under its upper bound 1
C29_Witness ==
    /\ pc = "probed"
    /\ MODEL = 2 /\ DOWNWIND
    /\ queue = <<defaults>>
    /\ defaults.ctlim = 99900
    /\ pbounds.ctlim = <<1000, 100000>>

-----------------------------------------------------------------------------
(* Claims about the Sobol sensitivity script *)

\* the analysis loop has run through every grid point
SobolLoopDone ==
    /\ pc = "sobol"
    /\ sobol_raised = NoError
    /\ sobol_j = size_from(original_shape, 1)

\* C30 (as claimed): when the per-grid-point loop has finished, the stored
\* first-order index of every parameter at a grid point whose outputs vary is
\* the Si['S1'][k] computed for that grid point, and it is 0 at a grid point
\* without variation; an iteration writes, per parameter, only the cell of
\* its own grid point
C30_SobolIndicesPerCell ==
    /\ [](SobolLoopDone =>
            \A k \in 1..num_vars, c \in GridPoints(original_shape) :
                S1_indices[k][c] = IF Y_varies[c] THEN sobol_S1(c, k) ELSE 0)
    /\ [][SobolLoopAt =>
            \A k \in 1..num_vars, c \in GridPoints(original_shape) :
                c # sobol_j => S1_indices'[k][c] = S1_indices[k][c]]_vars

====
